---- MODULE Spec2Model ----
(***************************************************************************)
(* FactCheck AI Agent (streamlit_app.py): claim extraction, source         *)
(* retrieval, credibility analysis, the fact-check orchestrator and the    *)
(* session history of the Streamlit script.                                *)
(*                                                                         *)
(* Python strings whose content the program inspects are modelled as       *)
(* sequences of one-character strings, so that lower(), upper(), title(),  *)
(* split(), slicing, the `in` substring test and the regular expressions   *)
(* are computed character by character.  Confidences are integers in       *)
(* hundredths (0.95 is 95).                                                *)
(***************************************************************************)
EXTENDS Integers, Sequences, FiniteSets, TLC

VARIABLES api_key, fact_checks, pc, pending, warnings, displayed, run, now, call

vars == <<api_key, fact_checks, pc, pending, warnings, displayed, run, now, call>>

appvars == <<api_key, fact_checks, pc, pending, warnings, displayed, run, now>>

(***************************************************************************)
(* String primitives of Python used by the program.                        *)
(***************************************************************************)
UpperLetters == <<"A","B","C","D","E","F","G","H","I","J","K","L","M","N","O","P","Q","R","S","T","U","V","W","X","Y","Z">>

LowerLetters == <<"a","b","c","d","e","f","g","h","i","j","k","l","m","n","o","p","q","r","s","t","u","v","w","x","y","z">>

Range(s) == {s[i] : i \in DOMAIN s}

IsUpper(c) == c \in Range(UpperLetters)

IsLower(c) == c \in Range(LowerLetters)

IsSpace(c) == c \in {" ", "\n", "\t"}

IndexIn(c, s) == CHOOSE i \in DOMAIN s : s[i] = c

LowerChar(c) == IF IsUpper(c) THEN LowerLetters[IndexIn(c, UpperLetters)] ELSE c

UpperChar(c) == IF IsLower(c) THEN UpperLetters[IndexIn(c, LowerLetters)] ELSE c

\* str.lower()
Lower(s) == [i \in DOMAIN s |-> LowerChar(s[i])]

\* str.upper()
Upper(s) == [i \in DOMAIN s |-> UpperChar(s[i])]

\* str.title(): a cased character is upper-cased after an uncased one and
\* lower-cased after a cased one
Title(s) == [i \in DOMAIN s |->
               IF i = 1 \/ ~(IsUpper(s[i-1]) \/ IsLower(s[i-1]))
               THEN UpperChar(s[i]) ELSE LowerChar(s[i])]

\* w in s (substring test)
Contains(w, s) ==
  \E i \in 0..(Len(s) - Len(w)) : \A j \in 1..Len(w) : s[i + j] = w[j]

\* s[:n]
Prefix(s, n) == SubSeq(s, 1, IF Len(s) < n THEN Len(s) ELSE n)

\* s[-n:]
Suffix(s, n) == SubSeq(s, (IF Len(s) < n THEN 0 ELSE Len(s) - n) + 1, Len(s))

\* reversed(s)
Reversed(s) == [i \in 1..Len(s) |-> s[Len(s) + 1 - i]]

\* str.strip()
RECURSIVE LStrip(_)
LStrip(s) == IF s # << >> /\ IsSpace(Head(s)) THEN LStrip(Tail(s)) ELSE s

Strip(s) == Reversed(LStrip(Reversed(LStrip(s))))

\* str.split(): the maximal runs of non-whitespace characters
RECURSIVE SplitFrom(_, _, _)
SplitFrom(s, i, cur) ==
  IF i > Len(s) THEN (IF cur = << >> THEN << >> ELSE <<cur>>)
  ELSE IF IsSpace(s[i])
       THEN (IF cur = << >> THEN << >> ELSE <<cur>>) \o SplitFrom(s, i + 1, << >>)
       ELSE SplitFrom(s, i + 1, Append(cur, s[i]))

Split(s) == SplitFrom(s, 1, << >>)

\* ' '.join(parts)
RECURSIVE JoinSp(_)
JoinSp(parts) ==
  IF parts = << >> THEN << >>
  ELSE IF Len(parts) = 1 THEN parts[1]
  ELSE parts[1] \o <<" ">> \o JoinSp(Tail(parts))

Min(S) == CHOOSE x \in S : \A y \in S : x <= y

(***************************************************************************)
(* search_web: the static table of canned results and its lookup.          *)
(***************************************************************************)
demo_results == <<
  [key |-> <<"i","p","h","o","n","e"," ","1","5"," ","t","i","t","a","n","i","u","m">>,
   results |-> <<
     [title |-> <<"A","p","p","l","e"," ","i","P","h","o","n","e"," ","1","5"," ","P","r","o"," ","F","e","a","t","u","r","e","s"," ","T","i","t","a","n","i","u","m"," ","D","e","s","i","g","n">>,
      url |-> <<"h","t","t","p","s",":","/","/","a","p","p","l","e",".","c","o","m","/","n","e","w","s","r","o","o","m">>,
      snippet |-> <<"T","h","e"," ","i","P","h","o","n","e"," ","1","5"," ","P","r","o"," ","i","n","t","r","o","d","u","c","e","s"," ","a"," ","t","i","t","a","n","i","u","m"," ","d","e","s","i","g","n"," ","t","h","a","t","'","s"," ","l","i","g","h","t","e","r"," ","y","e","t"," ","s","t","r","o","n","g","e","r"," ","t","h","a","n"," ","s","t","e","e","l",".">>],
     [title |-> <<"i","P","h","o","n","e"," ","1","5"," ","P","r","o"," ","R","e","v","i","e","w",":"," ","T","i","t","a","n","i","u","m"," ","M","a","k","e","s"," ","a"," ","D","i","f","f","e","r","e","n","c","e">>,
      url |-> <<"h","t","t","p","s",":","/","/","t","e","c","h","c","r","u","n","c","h",".","c","o","m">>,
      snippet |-> <<"A","p","p","l","e","'","s"," ","u","s","e"," ","o","f"," ","G","r","a","d","e"," ","5"," ","t","i","t","a","n","i","u","m"," ","i","n"," ","t","h","e"," ","i","P","h","o","n","e"," ","1","5"," ","P","r","o"," ","r","e","s","u","l","t","s"," ","i","n"," ","t","h","e"," ","l","i","g","h","t","e","s","t"," ","P","r","o"," ","m","o","d","e","l"," ","e","v","e","r",".">>] >>],
  [key |-> <<"w","a","t","e","r"," ","8"," ","g","l","a","s","s","e","s"," ","d","a","i","l","y">>,
   results |-> <<
     [title |-> <<"M","a","y","o"," ","C","l","i","n","i","c",":"," ","H","o","w"," ","m","u","c","h"," ","w","a","t","e","r"," ","s","h","o","u","l","d"," ","y","o","u"," ","d","r","i","n","k"," ","d","a","i","l","y","?">>,
      url |-> <<"h","t","t","p","s",":","/","/","m","a","y","o","c","l","i","n","i","c",".","o","r","g">>,
      snippet |-> <<"T","h","e"," ","8"," ","g","l","a","s","s","e","s"," ","r","u","l","e"," ","i","s"," ","a"," ","g","o","o","d"," ","s","t","a","r","t","i","n","g"," ","p","o","i","n","t"," ","b","u","t"," ","i","n","d","i","v","i","d","u","a","l"," ","n","e","e","d","s"," ","v","a","r","y"," ","b","a","s","e","d"," ","o","n"," ","a","c","t","i","v","i","t","y",","," ","c","l","i","m","a","t","e",","," ","a","n","d"," ","h","e","a","l","t","h",".">>],
     [title |-> <<"H","a","r","v","a","r","d"," ","H","e","a","l","t","h",":"," ","T","h","e"," ","i","m","p","o","r","t","a","n","c","e"," ","o","f"," ","s","t","a","y","i","n","g"," ","h","y","d","r","a","t","e","d">>,
      url |-> <<"h","t","t","p","s",":","/","/","h","e","a","l","t","h",".","h","a","r","v","a","r","d",".","e","d","u">>,
      snippet |-> <<"W","h","i","l","e"," ","8"," ","g","l","a","s","s","e","s"," ","i","s"," ","c","o","m","m","o","n","l","y"," ","c","i","t","e","d",","," ","a","c","t","u","a","l"," ","f","l","u","i","d"," ","n","e","e","d","s"," ","d","e","p","e","n","d"," ","o","n"," ","m","a","n","y"," ","f","a","c","t","o","r","s"," ","i","n","c","l","u","d","i","n","g"," ","f","o","o","d"," ","i","n","t","a","k","e",".">>] >>],
  [key |-> <<"g","r","e","a","t"," ","w","a","l","l"," ","c","h","i","n","a"," ","s","p","a","c","e">>,
   results |-> <<
     [title |-> <<"N","A","S","A",":"," ","G","r","e","a","t"," ","W","a","l","l"," ","o","f"," ","C","h","i","n","a"," ","N","o","t"," ","V","i","s","i","b","l","e"," ","f","r","o","m"," ","S","p","a","c","e">>,
      url |-> <<"h","t","t","p","s",":","/","/","n","a","s","a",".","g","o","v">>,
      snippet |-> <<"C","o","n","t","r","a","r","y"," ","t","o"," ","p","o","p","u","l","a","r"," ","b","e","l","i","e","f",","," ","t","h","e"," ","G","r","e","a","t"," ","W","a","l","l"," ","o","f"," ","C","h","i","n","a"," ","i","s"," ","n","o","t"," ","v","i","s","i","b","l","e"," ","f","r","o","m"," ","s","p","a","c","e"," ","w","i","t","h"," ","t","h","e"," ","n","a","k","e","d"," ","e","y","e",".">>],
     [title |-> <<"S","n","o","p","e","s",":"," ","C","a","n"," ","Y","o","u"," ","S","e","e"," ","t","h","e"," ","G","r","e","a","t"," ","W","a","l","l"," ","f","r","o","m"," ","S","p","a","c","e","?">>,
      url |-> <<"h","t","t","p","s",":","/","/","s","n","o","p","e","s",".","c","o","m">>,
      snippet |-> <<"T","h","i","s"," ","i","s"," ","a"," ","p","e","r","s","i","s","t","e","n","t"," ","m","y","t","h","."," ","T","h","e"," ","w","a","l","l"," ","i","s"," ","t","o","o"," ","n","a","r","r","o","w"," ","t","o"," ","b","e"," ","s","e","e","n"," ","f","r","o","m"," ","s","p","a","c","e"," ","w","i","t","h","o","u","t"," ","a","i","d",".">>] >>] >>

placeholder_result(query) ==
  [title |-> <<"S","e","a","r","c","h"," ","r","e","s","u","l","t","s"," ","f","o","r",":"," ">> \o query,
   url |-> <<"h","t","t","p","s",":","/","/","e","x","a","m","p","l","e",".","c","o","m">>,
   snippet |-> <<"M","u","l","t","i","p","l","e"," ","s","o","u","r","c","e","s"," ","f","o","u","n","d","."," ","V","e","r","i","f","i","c","a","t","i","o","n"," ","i","n"," ","p","r","o","g","r","e","s","s",".",".",".">>]

\* the key compared as one phrase instead of token by token
key_matches_whole_key(key, query_lower) == Contains(key, query_lower)

\* any(word in query_lower for word in key.split())
key_matches(key, query_lower) ==
  \E word \in Range(Split(key)) : Contains(word, query_lower)

\* the for loop over demo_results.items(), from entry k on
RECURSIVE search_web_from(_, _)
search_web_from(k, query) ==
  IF k > Len(demo_results) THEN <<placeholder_result(query)>>
  ELSE IF key_matches(demo_results[k].key, Lower(query))
       THEN demo_results[k].results
       ELSE search_web_from(k + 1, query)

search_web(query) == search_web_from(1, query)

(***************************************************************************)
(* search_web_real: the live instant-answer call with the static fallback. *)
(* The reply of the endpoint is an input: live.kind = "raise" when         *)
(* requests.get or response.json() throws or data is not an object,        *)
(* "ok" when data is a JSON object.                                        *)
(***************************************************************************)
WebSearchFailed == <<"W","e","b"," ","s","e","a","r","c","h"," ","f","a","i","l","e","d">>

\* s.split('/')[-1]
RECURSIVE LastSegment(_)
LastSegment(s) ==
  IF \E i \in DOMAIN s : s[i] = "/"
  THEN LastSegment(Tail(s))
  ELSE s

\* s.replace('_', ' ')
ReplaceUnderscore(s) == [i \in DOMAIN s |-> IF s[i] = "_" THEN " " ELSE s[i]]

\* the record appended for data['AbstractText']
abstract_record(data) ==
  [title |-> IF data.AbstractSource.has THEN data.AbstractSource.val ELSE <<"D","u","c","k","D","u","c","k","G","o">>,
   url |-> IF data.AbstractURL.has THEN data.AbstractURL.val ELSE <<"h","t","t","p","s",":","/","/","d","u","c","k","d","u","c","k","g","o",".","c","o","m">>,
   snippet |-> data.AbstractText]

\* the record appended for one related topic
topic_record(topic) ==
  [title |-> Title(ReplaceUnderscore(LastSegment(topic.FirstURL))),
   url |-> topic.FirstURL,
   snippet |-> topic.Text]

\* for topic in data.get('RelatedTopics', [])[:3]
RECURSIVE topic_records(_)
topic_records(topics) ==
  IF topics = << >> THEN << >>
  ELSE (IF Head(topics).isDict /\ Head(topics).Text # << >>
        THEN <<topic_record(Head(topics))>> ELSE << >>)
       \o topic_records(Tail(topics))

live_results(data) ==
  (IF data.AbstractText # << >> THEN <<abstract_record(data)>> ELSE << >>)
  \o topic_records(Prefix(data.RelatedTopics, 3))

\* the empty live result returned as it is, without the static lookup
search_web_real_no_fallback(query, live) ==
  IF live.kind = "raise"
  THEN [results |-> search_web(query), warnings |-> <<WebSearchFailed>>, static |-> TRUE]
  ELSE [results |-> live_results(live.data), warnings |-> << >>, static |-> FALSE]

\* results: the list returned; warnings: the st.warning calls made;
\* static: whether search_web was called
search_web_real(query, live) ==
  IF live.kind = "raise"
  THEN [results |-> search_web(query), warnings |-> <<WebSearchFailed>>, static |-> TRUE]
  ELSE IF live_results(live.data) # << >>
       THEN [results |-> live_results(live.data), warnings |-> << >>, static |-> FALSE]
       ELSE [results |-> search_web(query), warnings |-> << >>, static |-> TRUE]

(***************************************************************************)
(* analyze_claim_credibility: keyword-polarity scoring.                    *)
(***************************************************************************)
positive_words == << <<"c","o","n","f","i","r","m","e","d">>, <<"v","e","r","i","f","i","e","d">>, <<"p","r","o","v","e","n">>, <<"r","e","s","e","a","r","c","h"," ","s","h","o","w","s">>,
                     <<"s","t","u","d","i","e","s"," ","i","n","d","i","c","a","t","e">>, <<"a","c","c","o","r","d","i","n","g"," ","t","o"," ","e","x","p","e","r","t","s">> >>

negative_words == << <<"m","y","t","h">>, <<"f","a","l","s","e">>, <<"d","e","b","u","n","k","e","d">>, <<"n","o","t"," ","t","r","u","e">>,
                     <<"c","o","n","t","r","a","r","y"," ","t","o"," ","b","e","l","i","e","f">>, <<"m","i","s","c","o","n","c","e","p","t","i","o","n">> >>

\* ' '.join([r['snippet'] for r in search_results]).lower()
snippets_lower(search_results) ==
  Lower(JoinSp([i \in DOMAIN search_results |-> search_results[i].snippet]))

\* sum(1 for word in words if word in text)
cue_score(words, text) == Cardinality({i \in DOMAIN words : Contains(words[i], text)})

IMin(a, b) == IF a < b THEN a ELSE b

IMax(a, b) == IF a > b THEN a ELSE b

\* the scores without the min(...) caps
analyze_claim_credibility_uncapped(claim, search_results) ==
  LET positive_score == cue_score(positive_words, snippets_lower(search_results))
      negative_score == cue_score(negative_words, snippets_lower(search_results))
  IN IF negative_score > positive_score
     THEN <<"FALSE", IMax(70, 70 + negative_score * 10), "red">>
     ELSE IF positive_score > negative_score
     THEN <<"VERIFIED", IMax(60, 60 + positive_score * 10), "green">>
     ELSE <<"DISPUTED", 50, "orange">>

\* the 3-tuple (verdict, confidence, color)
analyze_claim_credibility(claim, search_results) ==
  LET positive_score == cue_score(positive_words, snippets_lower(search_results))
      negative_score == cue_score(negative_words, snippets_lower(search_results))
  IN IF negative_score > positive_score
     THEN <<"FALSE", IMax(70, IMin(95, 70 + negative_score * 10)), "red">>
     ELSE IF positive_score > negative_score
     THEN <<"VERIFIED", IMax(60, IMin(90, 60 + positive_score * 10)), "green">>
     ELSE <<"DISPUTED", 50, "orange">>

(***************************************************************************)
(* analyze_claim_with_ai.  The completion is an input: resp.kind is        *)
(* "raise" (the call throws), "object" (the text parses to a JSON object), *)
(* "json_other" (it parses to a JSON value that is not an object), or      *)
(* "text" (json.loads raises JSONDecodeError).                             *)
(***************************************************************************)
AIAnalysisFailed == <<"A","I"," ","a","n","a","l","y","s","i","s"," ","f","a","i","l","e","d">>

color_map(verdict) ==
  CASE verdict = "VERIFIED" -> "green"
    [] verdict = "DISPUTED" -> "orange"
    [] verdict = "FALSE" -> "red"
    [] verdict = "INSUFFICIENT" -> "orange"
    [] OTHER -> "orange"

KeywordReasoning == <<"A","n","a","l","y","s","i","s"," ","b","a","s","e","d"," ","o","n"," ","k","e","y","w","o","r","d"," ","m","a","t","c","h","i","n","g">>

\* the fallback padded to the five values the caller unpacks
ai_fallback_padded(claim, search_results) ==
  [ret |-> analyze_claim_credibility(claim, search_results) \o <<KeywordReasoning, << >> >>,
   warnings |-> <<AIAnalysisFailed>>, by |-> "HEURISTIC"]

\* the except Exception branch
ai_fallback(claim, search_results) ==
  [ret |-> analyze_claim_credibility(claim, search_results),
   warnings |-> <<AIAnalysisFailed>>, by |-> "HEURISTIC"]

\* ret: the tuple returned; by: the strategy that computed it
analyze_claim_with_ai(claim, search_results, key, resp) ==
  IF ~key
  THEN [ret |-> analyze_claim_credibility(claim, search_results),
        warnings |-> << >>, by |-> "HEURISTIC"]
  ELSE IF resp.kind = "raise" THEN ai_fallback(claim, search_results)
  ELSE IF resp.kind = "json_other" THEN ai_fallback(claim, search_results)
  ELSE IF resp.kind = "object"
  THEN IF resp.confidence.has /\ ~resp.confidence.numeric
       THEN ai_fallback(claim, search_results)
       ELSE LET verdict == IF resp.verdict.has THEN resp.verdict.val ELSE "INSUFFICIENT"
                confidence == IF resp.confidence.has THEN resp.confidence.val ELSE 50
                reasoning == IF resp.reasoning.has THEN resp.reasoning.val
                             ELSE <<"A","n","a","l","y","s","i","s"," ","c","o","m","p","l","e","t","e","d">>
                evidence == IF resp.key_evidence.has THEN resp.key_evidence.val ELSE << >>
            IN [ret |-> <<verdict, confidence, color_map(verdict), reasoning, evidence>>,
                warnings |-> << >>, by |-> "AI"]
  ELSE LET result_text == Strip(resp.content)
       IN [ret |-> IF Contains(<<"V","E","R","I","F","I","E","D">>, Upper(result_text))
                   THEN <<"VERIFIED", 80, "green", result_text, << >> >>
                   ELSE IF Contains(<<"F","A","L","S","E">>, Upper(result_text))
                   THEN <<"FALSE", 80, "red", result_text, << >> >>
                   ELSE <<"DISPUTED", 60, "orange", result_text, << >> >>,
           warnings |-> << >>, by |-> "AI"]

(***************************************************************************)
(* fact_check_claim.  raised: the call ends in an exception (the tuple     *)
(* unpacking of line 297 needs exactly 5 values).  t is the value of the   *)
(* clock read by datetime.now().                                           *)
(***************************************************************************)
fact_check_claim(claim, key, live, resp, t) ==
  LET search == search_web_real(claim, live)
      ai == analyze_claim_with_ai(claim, search.results, key, resp)
      tuple == IF key THEN ai.ret
               ELSE analyze_claim_credibility(claim, search.results)
                    \o <<KeywordReasoning, << >> >>
      w == search.warnings \o (IF key THEN ai.warnings ELSE << >>)
  IN IF Len(tuple) # 5
     THEN [raised |-> TRUE, warnings |-> w, by |-> "NONE", static |-> search.static]
     ELSE [raised |-> FALSE, warnings |-> w,
           by |-> IF key THEN ai.by ELSE "HEURISTIC",
           static |-> search.static,
           result |-> [claim |-> claim,
                       verdict |-> tuple[1],
                       confidence |-> tuple[2],
                       sources |-> search.results,
                       color |-> tuple[3],
                       reasoning |-> tuple[4],
                       evidence |-> tuple[5],
                       timestamp |-> t,
                       ai_powered |-> key]]

(***************************************************************************)
(* extract_claims: re.findall of the three claim patterns.  Each pattern   *)
(* is  [A-Z][^.!?]*(?:cue|...)[^.!?]*[.!?] : a match starts at an          *)
(* upper-case letter, ends at the first terminator after it, and needs a   *)
(* cue between the two.                                                    *)
(***************************************************************************)
claim_patterns == <<
  << <<"i","s">>, <<"a","r","e">>, <<"w","a","s">>, <<"w","e","r","e">>, <<"h","a","s">>, <<"h","a","v","e">>, <<"w","i","l","l">>, <<"c","a","n">>,
     <<"c","a","n","n","o","t">>, <<"c","o","s","t">>, <<"c","o","s","t","s">>, <<"c","o","n","t","a","i","n">>, <<"c","o","n","t","a","i","n","s">>, <<"c","a","u","s","e">>, <<"c","a","u","s","e","s">> >>,
  << <<"0">>, <<"1">>, <<"2">>, <<"3">>, <<"4">>, <<"5">>, <<"6">>, <<"7">>, <<"8">>, <<"9">>,
     <<"p","e","r","c","e","n","t">>, <<"%">>, <<"m","i","l","l","i","o","n">>, <<"b","i","l","l","i","o","n">>, <<"t","h","o","u","s","a","n","d">> >>,
  << <<"s","t","u","d","i","e","s"," ","s","h","o","w">>, <<"r","e","s","e","a","r","c","h"," ","s","h","o","w","s">>, <<"a","c","c","o","r","d","i","n","g"," ","t","o">>, <<"s","c","i","e","n","t","i","s","t","s">>, <<"d","o","c","t","o","r","s">> >> >>

\* [.!?]
IsTerminator(c) == c \in {".", "!", "?"}

\* position of the first terminator after position s, 0 when there is none
FirstTerminatorAfter(text, s) ==
  IF \E e \in (s + 1)..Len(text) : IsTerminator(text[e])
  THEN Min({e \in (s + 1)..Len(text) : IsTerminator(text[e])})
  ELSE 0

\* the pattern matches at position s of text
MatchesAt(cues, text, s) ==
  /\ IsUpper(text[s])
  /\ FirstTerminatorAfter(text, s) # 0
  /\ \E k \in DOMAIN cues :
       Contains(cues[k], SubSeq(text, s + 1, FirstTerminatorAfter(text, s) - 1))

\* re.findall(pattern, text): the non-overlapping matches, leftmost first,
\* searching from position i
RECURSIVE FindAllFrom(_, _, _)
FindAllFrom(cues, text, i) ==
  LET starts == {s \in i..Len(text) : MatchesAt(cues, text, s)}
  IN IF starts = {} THEN << >>
     ELSE LET s == Min(starts)
              e == FirstTerminatorAfter(text, s)
          IN <<SubSeq(text, s, e)>> \o FindAllFrom(cues, text, e + 1)

FindAll(cues, text) == FindAllFrom(cues, text, 1)

extract_claims(text) ==
  LET matches == FindAll(claim_patterns[1], text) \o FindAll(claim_patterns[2], text)
                 \o FindAll(claim_patterns[3], text)
      claims == IF matches = << >> /\ Len(Strip(text)) > 10
                THEN <<Strip(text)>> ELSE matches
  IN Prefix(claims, 3)

(***************************************************************************)
(* extract_claims_ai.  The completion is an input: resp.kind is "raise"    *)
(* (the call throws), "array" (the text parses to a JSON array, whose      *)
(* elements are resp.items), "json_other" (it parses to a JSON value that  *)
(* is not an array) or "text" (json.loads throws).                         *)
(***************************************************************************)
AIExtractionFailed == <<"A","I"," ","c","l","a","i","m"," ","e","x","t","r","a","c","t","i","o","n"," ","f","a","i","l","e","d">>

\* claims: the list returned; warnings: the st.warning calls made
extract_claims_ai(text, key, resp) ==
  IF ~key THEN [claims |-> extract_claims(text), warnings |-> << >>]
  ELSE IF resp.kind = "raise"
  THEN [claims |-> extract_claims(text), warnings |-> <<AIExtractionFailed>>]
  ELSE IF resp.kind = "array"
  THEN [claims |-> resp.items, warnings |-> << >>]
  ELSE IF resp.kind = "json_other"
  THEN [claims |-> <<Strip(resp.content)>>, warnings |-> << >>]
  ELSE [claims |-> IF Strip(resp.content) # << >> THEN <<Strip(resp.content)>> ELSE <<text>>,
        warnings |-> << >>]

\* lines 357-360: the extraction the script runs for the configured tier
script_extract(text, key, resp) ==
  IF key THEN extract_claims_ai(text, key, resp)
  ELSE [claims |-> extract_claims(text), warnings |-> << >>]

(***************************************************************************)
(* Bounds and the finite sets the inputs are drawn from.                   *)
(***************************************************************************)
MaxWords == 3

MaxSources == 3

MaxTopics == 4

MaxItems == 4

MaxSentences == 2

MaxHistory == 6

\* the sequences over S of length lo..hi
SeqsOf(S, lo, hi) == UNION {[1..n -> S] : n \in lo..hi}

RECURSIVE Concat(_)
Concat(parts) == IF parts = << >> THEN << >> ELSE Head(parts) \o Concat(Tail(parts))

QueryWords == { <<"i","P","h","o","n","e">>, <<"2","0","1","5">>, <<"W","a","l","l","e","t">>, <<"W","A","T","E","R">>, <<"c","a","t","s">>, <<"s","l","e","e","p">> }

Queries == {JoinSp(ws) : ws \in SeqsOf(QueryWords, 1, MaxWords)}

ExampleClaims == { <<"T","h","e"," ","i","P","h","o","n","e"," ","1","5"," ","P","r","o"," ","h","a","s"," ","a"," ","t","i","t","a","n","i","u","m"," ","f","r","a","m","e">>,
                   <<"Y","o","u"," ","n","e","e","d"," ","t","o"," ","d","r","i","n","k"," ","8"," ","g","l","a","s","s","e","s"," ","o","f"," ","w","a","t","e","r"," ","d","a","i","l","y">>,
                   <<"T","h","e"," ","G","r","e","a","t"," ","W","a","l","l"," ","o","f"," ","C","h","i","n","a"," ","i","s"," ","v","i","s","i","b","l","e"," ","f","r","o","m"," ","s","p","a","c","e">>,
                   <<"C","a","t","s"," ","s","l","e","e","p"," ","a"," ","l","o","t",".">> }

Absent == [has |-> FALSE]

Present(v) == [has |-> TRUE, val |-> v]

Topics == { [isDict |-> TRUE, Text |-> <<"G","r","e","a","t"," ","W","a","l","l"," ","o","f"," ","C","h","i","n","a",","," ","a"," ","m","y","t","h">>,
             FirstURL |-> <<"h","t","t","p","s",":","/","/","d","u","c","k","d","u","c","k","g","o",".","c","o","m","/","g","r","e","a","t","_","w","a","l","l","_","o","f","_","C","H","I","N","A">>],
            [isDict |-> TRUE, Text |-> << >>, FirstURL |-> << >>],
            [isDict |-> FALSE, Text |-> << >>, FirstURL |-> << >>] }

LiveData == [AbstractText : {<< >>, <<"R","e","s","e","a","r","c","h"," ","s","h","o","w","s"," ","i","t"," ","i","s"," ","c","o","n","f","i","r","m","e","d",".">>},
             AbstractSource : {Absent, Present(<<"W","i","k","i","p","e","d","i","a">>)},
             AbstractURL : {Absent, Present(<<"h","t","t","p","s",":","/","/","e","n",".","w","i","k","i","p","e","d","i","a",".","o","r","g","/","w","i","k","i","/","W","a","t","e","r">>)},
             RelatedTopics : SeqsOf(Topics, 0, MaxTopics)]

LiveReplies == {[kind |-> "raise"]} \cup {[kind |-> "ok", data |-> d] : d \in LiveData}

Snippets == { <<"I","t"," ","i","s"," ","c","o","n","f","i","r","m","e","d"," ","a","n","d"," ","v","e","r","i","f","i","e","d">>,
              <<"P","r","o","v","e","n",":"," ","r","e","s","e","a","r","c","h"," ","s","h","o","w","s",","," ","s","t","u","d","i","e","s"," ","i","n","d","i","c","a","t","e",","," ","a","c","c","o","r","d","i","n","g"," ","t","o"," ","e","x","p","e","r","t","s">>,
              <<"T","h","i","s"," ","i","s"," ","a"," ","p","e","r","s","i","s","t","e","n","t"," ","m","y","t","h","."," ","T","h","e"," ","w","a","l","l"," ","i","s"," ","t","o","o"," ","n","a","r","r","o","w"," ","t","o"," ","b","e"," ","s","e","e","n"," ","f","r","o","m"," ","s","p","a","c","e"," ","w","i","t","h","o","u","t"," ","a","i","d",".">>,
              <<"F","a","l","s","e",","," ","d","e","b","u","n","k","e","d",";"," ","a"," ","m","i","s","c","o","n","c","e","p","t","i","o","n",","," ","c","o","n","t","r","a","r","y"," ","t","o"," ","b","e","l","i","e","f">>,
              <<"M","u","l","t","i","p","l","e"," ","s","o","u","r","c","e","s"," ","f","o","u","n","d","."," ","V","e","r","i","f","i","c","a","t","i","o","n"," ","i","n"," ","p","r","o","g","r","e","s","s",".",".",".">>,
              <<"I","t"," ","i","s"," ","N","O","T">>,
              <<"T","r","u","e"," ","o","r"," ","u","n","v","e","r","i","f","i","e","d">> }

SourceOf(snippet) == [title |-> <<"S","o","u","r","c","e">>, url |-> <<"h","t","t","p","s",":","/","/","e","x","a","m","p","l","e",".","c","o","m">>, snippet |-> snippet]

SourceLists == {[i \in DOMAIN sn |-> SourceOf(sn[i])] : sn \in SeqsOf(Snippets, 0, MaxSources)}

Fragments == { <<"W","a","t","e","r"," ","i","s"," ","w","e","t","."," ">>, <<"I","t"," ","c","o","s","t","s"," ","5","!"," ">>, <<"O","u","r"," ","d","o","c","t","o","r","s"," ","c","a","n"," ","s","e","e"," ","9","?"," ">>,
               <<"h","e","l","l","o"," ","w","o","r","l","d"," ","y","o","u">>, <<" "," ">>, <<"n","o"," ","c","a","p","s","."," ">> }

Texts == {Concat(fs) : fs \in SeqsOf(Fragments, 0, MaxSentences)}

ExtractReplies ==
  {[kind |-> "raise"]}
  \cup {[kind |-> "array", items |-> it] : it \in SeqsOf({ <<"W","a","t","e","r"," ","b","o","i","l","s"," ","a","t"," ","1","0","0","C">> }, 0, MaxItems)}
  \cup {[kind |-> "json_other", content |-> <<" ","{","\"","c","l","a","i","m","s","\"",":"," ","2","}"," ">>]}
  \cup {[kind |-> "text", content |-> c] : c \in { <<" ">>, <<" ","C","l","a","i","m",":"," ","w","a","t","e","r"," ","i","s"," ","w","e","t"," ">> }}

AnalysisReplies ==
  {[kind |-> "raise"], [kind |-> "json_other", content |-> <<"[","1",","," ","2","]">>]}
  \cup {[kind |-> "text", content |-> c] :
          c \in { <<"T","h","e"," ","c","l","a","i","m"," ","i","s"," ","v","e","r","i","f","i","e","d",".">>, <<"T","h","i","s"," ","i","s"," ","F","a","l","s","e"," ">>, <<"u","n","c","l","e","a","r">>,
                  <<"U","n","v","e","r","i","f","i","e","d",","," ","p","r","o","b","a","b","l","y"," ","f","a","l","s","e">> }}
  \cup [kind : {"object"},
        verdict : {Absent} \cup {Present(v) :
                     v \in {"VERIFIED", "DISPUTED", "FALSE", "INSUFFICIENT", "MAYBE"}},
        confidence : {Absent, [has |-> TRUE, numeric |-> FALSE]}
                     \cup {[has |-> TRUE, numeric |-> TRUE, val |-> c] :
                             c \in {-10, 0, 50, 95, 100, 150}},
        reasoning : {Absent, Present(<<"S","o","u","r","c","e","s"," ","a","g","r","e","e">>)},
        key_evidence : {Absent}]

(***************************************************************************)
(* Initial state: the script has not run; the credential is configured or  *)
(* not for the whole session.                                              *)
(***************************************************************************)
NoRun == [check_button |-> FALSE, blank |-> TRUE, claims |-> << >>,
          calls |-> 0, start |-> 0, aborted |-> FALSE]

Init ==
  /\ api_key \in BOOLEAN
  /\ fact_checks = << >>
  /\ pc = "idle"
  /\ pending = << >>
  /\ warnings = << >>
  /\ displayed = << >>
  /\ run = NoRun
  /\ now = 0
  /\ call = [fn |-> "none"]

(***************************************************************************)
(* Applications of the single functions to inputs, one per behaviour.      *)
(***************************************************************************)
SearchWeb ==
  /\ call.fn = "none"
  /\ \E query \in Queries \cup ExampleClaims :
       call' = [fn |-> "search_web", query |-> query, ret |-> search_web(query)]
  /\ UNCHANGED appvars

SearchWebReal ==
  /\ call.fn = "none"
  /\ \E query \in ExampleClaims, live \in LiveReplies :
       call' = [fn |-> "search_web_real", query |-> query, live |-> live,
                ret |-> search_web_real(query, live)]
  /\ UNCHANGED appvars

AnalyzeCredibility ==
  /\ call.fn = "none"
  /\ \E claim \in { <<"C","a","t","s"," ","s","l","e","e","p"," ","a"," ","l","o","t",".">> }, search_results \in SourceLists :
       call' = [fn |-> "analyze_claim_credibility", claim |-> claim,
                search_results |-> search_results,
                ret |-> analyze_claim_credibility(claim, search_results)]
  /\ UNCHANGED appvars

ExtractClaims ==
  /\ call.fn = "none"
  /\ \E text \in Texts, resp \in ExtractReplies :
       call' = [fn |-> "extract", text |-> text, resp |-> resp,
                ret |-> script_extract(text, api_key, resp)]
  /\ UNCHANGED appvars

FCLive == {[kind |-> "raise"]}
          \cup {[kind |-> "ok", data |-> d] :
                  d \in {x \in LiveData : x.RelatedTopics = << >> /\ x.AbstractURL = Absent}}

FactCheckClaim ==
  /\ call.fn = "none"
  /\ \E claim \in ExampleClaims, live \in FCLive, resp \in AnalysisReplies :
       call' = [fn |-> "fact_check_claim", claim |-> claim, live |-> live, resp |-> resp,
                ret |-> fact_check_claim(claim, api_key, live, resp, now)]
  /\ UNCHANGED appvars

SpecSearch == Init /\ [][SearchWeb]_vars

SpecSearchReal == Init /\ [][SearchWebReal]_vars

SpecAnalyze == Init /\ [][AnalyzeCredibility]_vars

SpecExtract == Init /\ [][ExtractClaims]_vars

SpecFactCheck == Init /\ [][FactCheckClaim]_vars

(***************************************************************************)
(* The Streamlit script.  One run of the script is the widget input        *)
(* (lines 331-353), the extraction (355-368), one step per iteration of    *)
(* the loop over the claims (369-416) and the recent-checks section        *)
(* (420-430), which the step that ends the run renders.  An exception      *)
(* that leaves fact_check_claim ends the run where it is raised.           *)
(* run keeps, for the current run: whether the button was pressed, whether *)
(* the input was blank, the extracted claims, the number of calls of       *)
(* fact_check_claim and the length of the history at its start.            *)
(***************************************************************************)
PleaseEnter == <<"P","l","e","a","s","e"," ","e","n","t","e","r"," ","a"," ","f","a","c","t","u","a","l"," ","c","l","a","i","m"," ","t","o"," ","v","e","r","i","f","y",".">>

AppTexts == { << >>, <<" "," "," ">>, <<"h","i">>, <<"W","a","t","e","r"," ","i","s"," ","w","e","t","."," ","I","t"," ","c","o","s","t","s"," ","5","!"," ">> }

AppButtons == {"none", "check", "iphone", "water", "wall"}

AppExtractReplies == {r \in ExtractReplies :
                        \/ r.kind = "array" /\ Len(r.items) \in {0, 2}
                        \/ r.kind = "text" /\ Strip(r.content) # << >>}

AppLive == {[kind |-> "ok", data |-> [AbstractText |-> << >>, AbstractSource |-> Absent,
                                      AbstractURL |-> Absent, RelatedTopics |-> << >>]]}

AppAnalysisReplies == {[kind |-> "raise"],
                       [kind |-> "object", verdict |-> Present("VERIFIED"),
                        confidence |-> [has |-> TRUE, numeric |-> TRUE, val |-> 90],
                        reasoning |-> Absent, key_evidence |-> Absent]}

\* lines 334-353: the text area, the primary button and the three examples
widget_input(text_area, button) ==
  [user_input |-> CASE button = "iphone" -> <<"T","h","e"," ","i","P","h","o","n","e"," ","1","5"," ","P","r","o"," ","h","a","s"," ","a"," ","t","i","t","a","n","i","u","m"," ","f","r","a","m","e">>
                    [] button = "water" -> <<"Y","o","u"," ","n","e","e","d"," ","t","o"," ","d","r","i","n","k"," ","8"," ","g","l","a","s","s","e","s"," ","o","f"," ","w","a","t","e","r"," ","d","a","i","l","y">>
                    [] button = "wall" -> <<"T","h","e"," ","G","r","e","a","t"," ","W","a","l","l"," ","o","f"," ","C","h","i","n","a"," ","i","s"," ","v","i","s","i","b","l","e"," ","f","r","o","m"," ","s","p","a","c","e">>
                    [] OTHER -> text_area,
   check_button |-> button # "none"]

\* lines 356-362 and 417-418 for one widget input and one completion:
\* processed is the condition of line 356
script_start(text_area, button, key, resp) ==
  LET w == widget_input(text_area, button)
      processed == w.check_button /\ Strip(w.user_input) # << >>
      ex == script_extract(w.user_input, key, resp)
  IN [check_button |-> w.check_button,
      blank |-> Strip(w.user_input) = << >>,
      processed |-> processed,
      claims |-> IF processed THEN ex.claims ELSE << >>,
      warnings |-> IF ~processed THEN << >>
                   ELSE IF ex.claims = << >> THEN ex.warnings \o <<PleaseEnter>>
                   ELSE ex.warnings]

\* the starts of a run over the inputs, per credential
script_starts == [key \in BOOLEAN |->
                    {script_start(text_area, button, key, resp) :
                       text_area \in AppTexts, button \in AppButtons,
                       resp \in AppExtractReplies}]

\* reversed(st.session_state.fact_checks[-5:])
recent_checks(history) == Reversed(Suffix(history, 5))

\* a run in which line 356 is false: nothing is processed
RunIdle ==
  /\ pc = "idle"
  /\ \E s \in script_starts[api_key] :
       /\ ~s.processed
       /\ run' = [check_button |-> s.check_button, blank |-> s.blank, claims |-> << >>,
                  calls |-> 0, start |-> Len(fact_checks), aborted |-> FALSE]
       /\ warnings' = s.warnings
  /\ displayed' = recent_checks(fact_checks)
  /\ UNCHANGED <<api_key, fact_checks, pc, pending, now, call>>

\* a run in which the extraction returns no claim (line 418)
RunNoClaims ==
  /\ pc = "idle"
  /\ \E s \in script_starts[api_key] :
       /\ s.processed /\ s.claims = << >>
       /\ run' = [check_button |-> s.check_button, blank |-> s.blank, claims |-> << >>,
                  calls |-> 0, start |-> Len(fact_checks), aborted |-> FALSE]
       /\ warnings' = s.warnings
  /\ displayed' = recent_checks(fact_checks)
  /\ UNCHANGED <<api_key, fact_checks, pc, pending, now, call>>

\* a run in which the extraction returns claims: the loop starts
RunExtract ==
  /\ pc = "idle"
  /\ \E s \in script_starts[api_key] :
       /\ s.processed /\ s.claims # << >>
       /\ Len(fact_checks) + Len(s.claims) <= MaxHistory
       /\ run' = [check_button |-> s.check_button, blank |-> s.blank, claims |-> s.claims,
                  calls |-> 0, start |-> Len(fact_checks), aborted |-> FALSE]
       /\ warnings' = s.warnings
       /\ pending' = s.claims
  /\ pc' = "loop"
  /\ UNCHANGED <<api_key, fact_checks, displayed, now, call>>

\* one iteration of the loop: fact_check_claim returns and its result is
\* appended; after the last claim the recent-checks section is rendered
CheckClaim ==
  /\ pc = "loop"
  /\ \E live \in AppLive, resp \in AppAnalysisReplies :
       LET r == fact_check_claim(Head(pending), api_key, live, resp, now)
       IN /\ ~r.raised
          /\ fact_checks' = Append(fact_checks, r.result)
          /\ warnings' = warnings \o r.warnings
  /\ now' = now + 1
  /\ pending' = Tail(pending)
  /\ run' = [run EXCEPT !.calls = @ + 1]
  /\ pc' = IF Tail(pending) = << >> THEN "idle" ELSE "loop"
  /\ displayed' = IF Tail(pending) = << >> THEN recent_checks(fact_checks') ELSE displayed
  /\ UNCHANGED <<api_key, call>>

\* one iteration of the loop: fact_check_claim raises and the run ends; the
\* recent-checks section is not rendered (what was on the page stays or goes)
CheckClaimRaises ==
  /\ pc = "loop"
  /\ \E live \in AppLive, resp \in AppAnalysisReplies :
       LET r == fact_check_claim(Head(pending), api_key, live, resp, now)
       IN /\ r.raised
          /\ warnings' = warnings \o r.warnings
  /\ pending' = << >>
  /\ run' = [run EXCEPT !.calls = @ + 1, !.aborted = TRUE]
  /\ pc' = "idle"
  /\ displayed' \in {<< >>, displayed}
  /\ UNCHANGED <<api_key, fact_checks, now, call>>

Next == RunIdle \/ RunNoClaims \/ RunExtract \/ CheckClaim \/ CheckClaimRaises

Spec == Init /\ [][Next]_vars

(***************************************************************************)
(* Properties.                                                             *)
(***************************************************************************)
Verdicts == {"VERIFIED", "DISPUTED", "FALSE", "INSUFFICIENT"}

Clamp(x, lo, hi) == IF x < lo THEN lo ELSE IF x > hi THEN hi ELSE x

\* C1: under either extraction strategy and for every completion, the
\* claims handed to the loop over fact_check_claim are at most 3.
C1_AtMostThreeClaims ==
  call.fn = "extract" => Len(call.ret.claims) <= 3

\* C2: with a credential configured, when the analysis completion call
\* raises, fact_check_claim still returns a record, whose verdict and
\* confidence are the heuristic ones for the same sources, after a warning.
C2_FallbackResultOnAIFailure ==
  (call.fn = "fact_check_claim" /\ api_key /\ call.resp.kind = "raise") =>
     /\ ~call.ret.raised
     /\ LET h == analyze_claim_credibility(call.claim,
                    search_web_real(call.claim, call.live).results)
        IN /\ call.ret.result.verdict = h[1]
           /\ call.ret.result.confidence = h[2]
     /\ AIAnalysisFailed \in Range(call.ret.warnings)

\* C3: every record fact_check_claim returns has its verdict among the four
\* verdicts and its confidence in [0, 1].
C3_VerdictAndConfidenceDomain ==
  (call.fn = "fact_check_claim" /\ ~call.ret.raised) =>
     /\ call.ret.result.verdict \in Verdicts
     /\ call.ret.result.confidence \in 0..100

\* C4: with p positive and n negative cue phrases found in the lower-cased
\* joined snippets, analyze_claim_credibility returns FALSE with
\* clamp(0.7 + 0.1 n, 0.7, 0.95) when n > p, VERIFIED with
\* clamp(0.6 + 0.1 p, 0.6, 0.9) when p > n, DISPUTED with 0.5 when p = n;
\* so the verdict is VERIFIED, DISPUTED or FALSE and the confidence is in
\* [0.5, 0.95].
C4_HeuristicVerdictAndConfidence ==
  call.fn = "analyze_claim_credibility" =>
    LET text == Lower(JoinSp([i \in DOMAIN call.search_results |->
                                call.search_results[i].snippet]))
        p == Cardinality({w \in { <<"c","o","n","f","i","r","m","e","d">>, <<"v","e","r","i","f","i","e","d">>, <<"p","r","o","v","e","n">>,
                                  <<"r","e","s","e","a","r","c","h"," ","s","h","o","w","s">>, <<"s","t","u","d","i","e","s"," ","i","n","d","i","c","a","t","e">>,
                                  <<"a","c","c","o","r","d","i","n","g"," ","t","o"," ","e","x","p","e","r","t","s">> } : Contains(w, text)})
        n == Cardinality({w \in { <<"m","y","t","h">>, <<"f","a","l","s","e">>, <<"d","e","b","u","n","k","e","d">>, <<"n","o","t"," ","t","r","u","e">>,
                                  <<"c","o","n","t","r","a","r","y"," ","t","o"," ","b","e","l","i","e","f">>, <<"m","i","s","c","o","n","c","e","p","t","i","o","n">> } :
                            Contains(w, text)})
    IN /\ n > p => call.ret[1] = "FALSE" /\ call.ret[2] = Clamp(70 + 10 * n, 70, 95)
       /\ p > n => call.ret[1] = "VERIFIED" /\ call.ret[2] = Clamp(60 + 10 * p, 60, 90)
       /\ p = n => call.ret[1] = "DISPUTED" /\ call.ret[2] = 50
       /\ call.ret[1] \in {"VERIFIED", "DISPUTED", "FALSE"}
       /\ call.ret[2] \in 50..95

\* C4 witness: three negative cues against fewer positive ones, capped at 0.95
C4_CappedFalse ==
  /\ call.fn = "analyze_claim_credibility"
  /\ cue_score(negative_words, snippets_lower(call.search_results)) >= 3
  /\ cue_score(positive_words, snippets_lower(call.search_results)) >= 1
  /\ call.ret = <<"FALSE", 95, "red">>

\* C5: in every record fact_check_claim returns, the tier flag is AI
\* exactly when the language-model strategy computed the verdict and the
\* confidence, and HEURISTIC exactly when the keyword strategy did.
C5_TierFlagRecordsProducer ==
  (call.fn = "fact_check_claim" /\ ~call.ret.raised) =>
     /\ call.ret.result.ai_powered <=> call.ret.by = "AI"
     /\ ~call.ret.result.ai_powered <=> call.ret.by = "HEURISTIC"

\* C5 witness: a record computed from a completion that is not JSON
C5_AIRecordReturned ==
  /\ call.fn = "fact_check_claim"
  /\ call.resp.kind = "text"
  /\ ~call.ret.raised
  /\ call.ret.by = "AI"
  /\ call.ret.result.ai_powered

\* C6: a submitted input that is blank, or from which no claim is
\* extracted, leads to no call of fact_check_claim, leaves the history
\* unchanged and shows the warning.
C6_NoCheckAndWarning ==
  [][(pc = "idle" /\ pc' = "idle" /\ run'.check_button
        /\ (run'.blank \/ run'.claims = << >>)) =>
       /\ run'.calls = 0
       /\ fact_checks' = fact_checks
       /\ PleaseEnter \in Range(warnings')]_vars

\* C7: the history only grows at its end, and a fact-check run appends
\* exactly one result per extracted claim, in extraction order.
C7_AppendOnePerClaim ==
  [][/\ Len(fact_checks') >= Len(fact_checks)
     /\ SubSeq(fact_checks', 1, Len(fact_checks)) = fact_checks
     /\ (pc = "loop" /\ pc' = "idle") =>
          /\ Len(fact_checks') = run'.start + Len(run'.claims)
          /\ \A i \in 1..Len(run'.claims) :
               fact_checks'[run'.start + i].claim = run'.claims[i]]_vars

\* C8: after any sequence of runs, the recent-checks list shown is the
\* last min(5, total) entries of the history, most recent first.
C8_RecentChecksDisplayed ==
  pc = "idle" =>
    /\ Len(displayed) = IMin(5, Len(fact_checks))
    /\ \A i \in 1..Len(displayed) : displayed[i] = fact_checks[Len(fact_checks) + 1 - i]

C10_FirstMatchLookup ==
  call.fn = "search_web" =>
    LET groups == << { <<"i","p","h","o","n","e">>, <<"1","5">>, <<"t","i","t","a","n","i","u","m">> },
                     { <<"w","a","t","e","r">>, <<"8">>, <<"g","l","a","s","s","e","s">>, <<"d","a","i","l","y">> },
                     { <<"g","r","e","a","t">>, <<"w","a","l","l">>, <<"c","h","i","n","a">>, <<"s","p","a","c","e">> } >>
        hits == {k \in 1..3 : \E w \in groups[k] : Contains(w, Lower(call.query))}
    IN IF hits # {}
       THEN /\ Len(call.ret) = 2
            /\ call.ret = demo_results[Min(hits)].results
       ELSE /\ Len(call.ret) = 1
            /\ call.ret[1].title = <<"S","e","a","r","c","h"," ","r","e","s","u","l","t","s"," ","f","o","r",":"," ">> \o call.query
            /\ Contains(<<"V","e","r","i","f","i","c","a","t","i","o","n"," ","i","n"," ","p","r","o","g","r","e","s","s">>, call.ret[1].snippet)

\* C10 witness: a query with a token of the third group and, by "15", one
\* of the first group gets the records of the first group
C10_FirstMatchNotBestMatch ==
  /\ call.fn = "search_web"
  /\ Contains(<<"w","a","l","l">>, Lower(call.query))
  /\ ~Contains(<<"i","p","h","o","n","e">>, Lower(call.query))
  /\ call.ret = demo_results[1].results

====
